---- MODULE Spec2Model ----
(***************************************************************************)
(* Model of server.py: the MicrosoftDocsClient (one lazily created shared  *)
(* aiohttp session, search_docs with its synthesized fallback,             *)
(* get_page_content) and the four tool coroutines built on it.             *)
(*                                                                         *)
(* Python strings are TLA+ strings.  A JSON value is a record [t, v] with  *)
(* t its type ("str", "null", "arr", "obj") and v its content; a mapping   *)
(* is a function from keys to values.  A page text or a fault description  *)
(* whose content plays no part is represented by its length.               *)
(***************************************************************************)
EXTENDS Integers, Sequences, FiniteSets, TLC

\* ------------------------------------------------------------------ bounds

NTasks == 2
MaxCleanups == 2

\* ------------------------------------------------------- program constants

LEARN_BASE_URL == "https://learn.microsoft.com"
DOCS_BASE_URL == "https://docs.microsoft.com"
ContentLimit == 5000
FacadeMaxResults == 10
CodeExamplesMax == 5
ApiReferenceMax == 3
HttpOk == 200

\* --------------------------------------------------------- Python builtins

Min2(a, b) == IF a <= b THEN a ELSE b

Max2(a, b) == IF a >= b THEN a ELSE b

\* len(seq[:n]) for a seq of length len: a negative n counts from the end
SliceLen(len, n) == IF n >= 0 THEN Min2(n, len) ELSE Max2(len + n, 0)

\* seq[:n], for a list or a string, n of either sign
SliceTo(s, n) == SubSeq(s, 1, SliceLen(Len(s), n))

CharAt(s, i) == SubSeq(s, i, i)

LowerChar(c) ==
  CASE c = "A" -> "a" [] c = "B" -> "b" [] c = "C" -> "c" [] c = "D" -> "d"
    [] c = "E" -> "e" [] c = "F" -> "f" [] c = "G" -> "g" [] c = "H" -> "h"
    [] c = "I" -> "i" [] c = "J" -> "j" [] c = "K" -> "k" [] c = "L" -> "l"
    [] c = "M" -> "m" [] c = "N" -> "n" [] c = "O" -> "o" [] c = "P" -> "p"
    [] c = "Q" -> "q" [] c = "R" -> "r" [] c = "S" -> "s" [] c = "T" -> "t"
    [] c = "U" -> "u" [] c = "V" -> "v" [] c = "W" -> "w" [] c = "X" -> "x"
    [] c = "Y" -> "y" [] c = "Z" -> "z" [] OTHER -> c

RECURSIVE Lower(_)
Lower(s) ==
  IF Len(s) = 0 THEN ""
  ELSE LowerChar(CharAt(s, 1)) \o Lower(SubSeq(s, 2, Len(s)))

\* s.replace(a, b) for one-character a and b
RECURSIVE ReplaceChar(_, _, _)
ReplaceChar(s, a, b) ==
  IF Len(s) = 0 THEN ""
  ELSE (IF CharAt(s, 1) = a THEN b ELSE CharAt(s, 1))
       \o ReplaceChar(SubSeq(s, 2, Len(s)), a, b)

\* sub in s
Contains(sub, s) ==
  \E i \in 0..(Len(s) - Len(sub)) : SubSeq(s, i + 1, i + Len(sub)) = sub

StartsWith(s, p) == Len(s) >= Len(p) /\ SubSeq(s, 1, Len(p)) = p

\* sep.join(parts)
RECURSIVE Join(_, _)
Join(sep, parts) ==
  IF Len(parts) = 0 THEN ""
  ELSE IF Len(parts) = 1 THEN parts[1]
  ELSE parts[1] \o sep \o Join(sep, Tail(parts))

\* ------------------------------------------------------------- JSON values

JStr(s) == [t |-> "str", v |-> s]

JNull == [t |-> "null", v |-> ""]

JArr(s) == [t |-> "arr", v |-> s]

JObj(m) == [t |-> "obj", v |-> m]

\* mapping.get(key, default)
Get(m, k, d) == IF k \in DOMAIN m THEN m[k] ELSE d

\* what a call gives its caller: a value, or a fault described by exc
Return(x) == [kind |-> "return", val |-> x, exc |-> ""]

Raise(e) == [kind |-> "raise", val |-> JNull, exc |-> e]

\* ------------------------------------------- MicrosoftDocsClient: search

\* product or "General"
ProductOrGeneral(product) == IF product = "" THEN "General" ELSE product

\* query.lower().replace(' ', '-')
Slug(query) == ReplaceChar(Lower(query), " ", "-")

MockRecord(title, url, description, product) ==
  JObj([title |-> JStr(title),
        url |-> JStr(url),
        description |-> JStr(description),
        lastUpdated |-> JStr("2024-01-01T00:00:00Z"),
        product |-> JStr(ProductOrGeneral(product))])

mock_results(query, product) ==
  << MockRecord("Microsoft Documentation: " \o query,
                LEARN_BASE_URL \o "/en-us/docs/" \o Slug(query),
                "Documentation about " \o query \o " in Microsoft products",
                product),
     MockRecord(query \o " - Getting Started Guide",
                LEARN_BASE_URL \o "/en-us/docs/" \o Slug(query) \o "/getting-started",
                "Getting started guide for " \o query,
                product),
     MockRecord(query \o " - Code Examples",
                LEARN_BASE_URL \o "/en-us/samples/" \o Slug(query),
                "Code examples and samples for " \o query,
                product) >>

\* mock_results[:max_results]
fallback_search(query, product, max_results) ==
  SliceTo(mock_results(query, product), max_results)

\* A response of the network to one GET: sendFault, the request raised
\* (timeout, connection error, closed session); status, the HTTP status;
\* bodyFault, reading or decoding the body raised; data, the decoded JSON
\* document; html, the parsed page; descLen, the length of str(e).
Response(sendFault, status, bodyFault, data, html, descLen) ==
  [sendFault |-> sendFault, status |-> status, bodyFault |-> bodyFault,
   data |-> data, html |-> html, descLen |-> descLen]

\* data.get("results", []): a document that is no mapping has no get
DataGetResults(data) ==
  IF data.t = "obj" THEN Return(Get(data.v, "results", JArr(<< >>)))
  ELSE Raise("object has no attribute 'get'")

\* search_docs without its except handler and fallback: faults propagate
search_docs_mut_reraise(query, product, max_results, resp) ==
  IF resp.sendFault THEN Raise("request failed")
  ELSE IF resp.status = HttpOk
    THEN IF resp.bodyFault THEN Raise("body is not JSON")
         ELSE DataGetResults(resp.data)
    ELSE Raise("bad status")

\* the try block of search_docs and its except Exception
search_docs(query, product, max_results, resp) ==
  IF resp.sendFault THEN Return(JArr(fallback_search(query, product, max_results)))
  ELSE IF resp.status = HttpOk
    THEN IF resp.bodyFault \/ DataGetResults(resp.data).kind = "raise"
           THEN Return(JArr(fallback_search(query, product, max_results)))
           ELSE DataGetResults(resp.data)
    ELSE Return(JArr(fallback_search(query, product, max_results)))

\* ------------------------------------- MicrosoftDocsClient: page content

\* a string of the content tools, by its length; err: an "Error ..." text
Text(err, len) == [err |-> err, len |-> len]

RECURSIVE DecLen(_)
DecLen(n) == IF n < 10 THEN 1 ELSE 1 + DecLen(n \div 10)

\* The parsed page: html[i] is the length of the text left in the element
\* that content_selectors[i] selects once the unwanted subtrees are
\* decomposed, or NoMatch when select_one finds none.
NoMatch == -1

RECURSIVE FirstMatch(_, _)
FirstMatch(html, i) ==
  IF i > Len(html) THEN 0
  ELSE IF html[i] # NoMatch THEN html[i]
  ELSE FirstMatch(html, i + 1)

get_page_content(url, resp) ==
  IF resp.sendFault \/ (resp.status = HttpOk /\ resp.bodyFault)
    THEN Return(Text(TRUE, Len("Error fetching content: ") + resp.descLen))
  ELSE IF resp.status = HttpOk
    THEN Return(Text(FALSE, SliceLen(FirstMatch(resp.html, 1), ContentLimit)))
  ELSE Return(Text(TRUE, Len("Error fetching content: HTTP ") + DecLen(resp.status)))

\* ------------------------------------------------------------ tool facade

\* min(max_results, 10)
ClampMax(max_results) == Min2(max_results, FacadeMaxResults)

\* for result in results: a list gives its elements, a string its
\* characters, anything else is not iterable
Iterable(x) == x.t \in {"arr", "str"}

Elements(x) ==
  IF x.t = "arr" THEN x.v ELSE [i \in 1..Len(x.v) |-> JStr(CharAt(x.v, i))]

\* the formatted_result of search_microsoft_docs
Formatted(m) ==
  [title |-> Get(m, "title", JStr("No title")),
   url |-> Get(m, "url", JStr("")),
   description |-> Get(m, "description", JStr("No description available")),
   lastUpdated |-> Get(m, "lastUpdated", JStr("Unknown")),
   product |-> Get(m, "product", JStr("General"))]

\* the try block of search_microsoft_docs, given what search_docs gave
SearchFormat(cr) ==
  IF cr.kind = "raise" THEN cr
  ELSE IF ~Iterable(cr.val) THEN Raise("object is not iterable")
  ELSE LET es == Elements(cr.val) IN
       IF \E i \in 1..Len(es) : es[i].t # "obj"
         THEN Raise("object has no attribute 'get'")
         ELSE Return([i \in 1..Len(es) |-> Formatted(es[i].v)])

\* search_microsoft_docs without its except handler
SearchFailed_mut_propagate(r) == r

\* except Exception as e: return [{"error": f"Search failed: {str(e)}"}]
SearchFailed(r) ==
  IF r.kind = "raise" THEN Return(<< [error |-> "Search failed: " \o r.exc] >>)
  ELSE r

search_microsoft_docs(cr) == SearchFailed(SearchFormat(cr))

\* a validation that checks the scheme only
ValidDocsUrl_mut_scheme(url) == StartsWith(url, "https://")

\* the URL validation of get_documentation_content
ValidDocsUrl(url) ==
  StartsWith(url, DOCS_BASE_URL) \/ StartsWith(url, LEARN_BASE_URL)

InvalidUrlText ==
  Text(TRUE, Len("Error: URL must be from docs.microsoft.com or learn.microsoft.com"))

\* except Exception as e: return f"Error fetching documentation: {str(e)}"
ContentFailed(r) ==
  IF r.kind = "raise"
    THEN Return(Text(TRUE, Len("Error fetching documentation: ") + Len(r.exc)))
    ELSE r

get_documentation_content(cr) == ContentFailed(cr)

\* a query without the fixed keywords
CodeQuery_mut_no_keywords(technology, programming_language, scenario) ==
  Join(" ", << technology >>
            \o (IF programming_language # "" THEN << programming_language >> ELSE << >>)
            \o (IF scenario # "" THEN << scenario >> ELSE << >>))

\* the query of find_code_examples
CodeQuery(technology, programming_language, scenario) ==
  Join(" ", << technology >>
            \o (IF programming_language # "" THEN << programming_language >> ELSE << >>)
            \o (IF scenario # "" THEN << scenario >> ELSE << >>)
            \o << "code", "example", "tutorial", "sample" >>)

CodeKeywords == << "example", "tutorial", "sample", "quickstart", "getting started" >>

\* any(keyword in title.lower() or keyword in description.lower() for ...):
\* "yes", "no", or "raise" when lower is asked of a value that is no string.
\* The description is only looked at when the keyword is not in the title.
RECURSIVE AnyKeyword(_, _, _)
AnyKeyword(title, description, kws) ==
  IF Len(kws) = 0 THEN "no"
  ELSE IF title.t # "str" THEN "raise"
  ELSE IF Contains(Head(kws), Lower(title.v)) THEN "yes"
  ELSE IF description.t # "str" THEN "raise"
  ELSE IF Contains(Head(kws), Lower(description.v)) THEN "yes"
  ELSE AnyKeyword(title, description, Tail(kws))

CodeMatch(e) ==
  IF e.t # "obj" THEN "raise"
  ELSE AnyKeyword(Get(e.v, "title", JStr("")), Get(e.v, "description", JStr("")),
                  CodeKeywords)

CodeExample(m) ==
  [title |-> Get(m, "title", JStr("")),
   url |-> Get(m, "url", JStr("")),
   description |-> Get(m, "description", JStr("")),
   type |-> "code_example"]

IsCodeMatch(e) == CodeMatch(e) = "yes"

\* the filter loop of find_code_examples
CodeFilter(cr) ==
  IF cr.kind = "raise" THEN cr
  ELSE IF ~Iterable(cr.val) THEN Raise("object is not iterable")
  ELSE LET es == Elements(cr.val) IN
       IF \E i \in 1..Len(es) : CodeMatch(es[i]) = "raise"
         THEN Raise("object has no attribute")
         ELSE LET kept == SelectSeq(es, IsCodeMatch) IN
              Return([i \in 1..Len(kept) |-> CodeExample(kept[i].v)])

\* except Exception as e: return [{"error": f"Failed to find code examples: ..."}]
CodeFailed(r) ==
  IF r.kind = "raise"
    THEN Return(<< [error |-> "Failed to find code examples: " \o r.exc] >>)
    ELSE r

find_code_examples(cr) == CodeFailed(CodeFilter(cr))

\* f"{api_name} API reference {version}"
ApiQuery(api_name, version) == api_name \o " API reference " \o version

\* "api" in title.lower() or "reference" in title.lower()
ApiMatch(e) ==
  IF e.t # "obj" THEN "raise"
  ELSE LET title == Get(e.v, "title", JStr("")) IN
       IF title.t # "str" THEN "raise"
       ELSE IF Contains("api", Lower(title.v)) \/ Contains("reference", Lower(title.v))
         THEN "yes" ELSE "no"

ApiDoc(m, version) ==
  [title |-> Get(m, "title", JStr("")),
   url |-> Get(m, "url", JStr("")),
   description |-> Get(m, "description", JStr("")),
   version |-> version,
   type |-> "api_reference"]

IsApiMatch(e) == ApiMatch(e) = "yes"

\* the filter loop of get_api_reference and the mapping it returns
ApiFilter(api_name, version, cr) ==
  IF cr.kind = "raise" THEN cr
  ELSE IF ~Iterable(cr.val) THEN Raise("object is not iterable")
  ELSE LET es == Elements(cr.val) IN
       IF \E i \in 1..Len(es) : ApiMatch(es[i]) = "raise"
         THEN Raise("object has no attribute")
         ELSE LET kept == SelectSeq(es, IsApiMatch) IN
              Return([api_name |-> api_name, version |-> version,
                      documentation |-> [i \in 1..Len(kept) |-> ApiDoc(kept[i].v, version)]])

\* except Exception as e: return {"error": f"Failed to get API reference: ..."}
ApiFailed(r) ==
  IF r.kind = "raise"
    THEN Return([error |-> "Failed to get API reference: " \o r.exc])
    ELSE r

get_api_reference(api_name, version, cr) == ApiFailed(ApiFilter(api_name, version, cr))

\* ------------------------------------------------------------------ state

VARIABLES
  session,    \* docs_client.session: None, or the handle get_session created
  created,    \* how many handles aiohttp.ClientSession() has constructed
  closeLog,   \* the handles session.close() was awaited on, in order
  lastGet,    \* the last GET sent: its handle, and whether a call had failed before
  failed,     \* some call ended in a non-200 status or a network/parse fault
  running,    \* the process is up (mcp.run() has not returned)
  pc,         \* per invocation slot: where the coroutine is suspended
  call,       \* per slot: the tool and its arguments
  sess,       \* per slot: the local variable session
  resp,       \* per slot: the response the finished call got
  cret,       \* per slot: what the client method gave the tool
  ret         \* per slot: what the tool gave the host

vars == << session, created, closeLog, lastGet, failed, running,
           pc, call, sess, resp, cret, ret >>

None == 0

Tasks == 1..NTasks

Call(op, query, product, max_results, url, technology, programming_language, scenario, api_name, version) ==
  [op |-> op, query |-> query, product |-> product, max_results |-> max_results,
   url |-> url, technology |-> technology,
   programming_language |-> programming_language, scenario |-> scenario,
   api_name |-> api_name, version |-> version]

NoCall == Call("", "", "", 0, "", "", "", "", "", "")

NoResponse == Response(FALSE, 0, FALSE, JNull, << >>, 0)

NotCalled == [kind |-> "none", val |-> JNull, exc |-> ""]

SearchCall(query, product, max_results) ==
  Call("search_microsoft_docs", query, product, max_results, "", "", "", "", "", "")

ContentCall(url) ==
  Call("get_documentation_content", "", "", 0, url, "", "", "", "", "")

CodeCall(technology, programming_language, scenario) ==
  Call("find_code_examples", "", "", 0, "", technology, programming_language,
       scenario, "", "")

ApiCall(api_name, version) ==
  Call("get_api_reference", "", "", 0, "", "", "", "", api_name, version)

\* the arguments a tool hands to docs_client.search_docs
ClientQuery(c) ==
  CASE c.op = "search_microsoft_docs" -> c.query
    [] c.op = "find_code_examples" ->
         CodeQuery(c.technology, c.programming_language, c.scenario)
    [] c.op = "get_api_reference" -> ApiQuery(c.api_name, c.version)
    [] OTHER -> ""

ClientProduct(c) == IF c.op = "search_microsoft_docs" THEN c.product ELSE ""

ClientMax(c) ==
  CASE c.op = "search_microsoft_docs" -> ClampMax(c.max_results)
    [] c.op = "find_code_examples" -> CodeExamplesMax
    [] c.op = "get_api_reference" -> ApiReferenceMax
    [] OTHER -> 0

\* the client method the tool awaits, given the response to its GET
ClientReturn(c, r) ==
  IF c.op = "get_documentation_content" THEN get_page_content(c.url, r)
  ELSE search_docs(ClientQuery(c), ClientProduct(c), ClientMax(c), r)

\* the rest of the tool once the client method has returned or raised
ToolReturn(c, cr) ==
  CASE c.op = "search_microsoft_docs" -> search_microsoft_docs(cr)
    [] c.op = "get_documentation_content" -> get_documentation_content(cr)
    [] c.op = "find_code_examples" -> find_code_examples(cr)
    [] c.op = "get_api_reference" -> get_api_reference(c.api_name, c.version, cr)

\* a call that ended in a non-200 status or a network/parse fault
Failed(r) == r.sendFault \/ r.status # HttpOk \/ r.bodyFault

Closed(h) == \E i \in 1..Len(closeLog) : closeLog[i] = h

Init ==
  /\ session = None
  /\ created = 0
  /\ closeLog = << >>
  /\ lastGet = [handle |-> None, afterFailure |-> FALSE]
  /\ failed = FALSE
  /\ running = TRUE
  /\ pc = [t \in Tasks |-> "idle"]
  /\ call = [t \in Tasks |-> NoCall]
  /\ sess = [t \in Tasks |-> None]
  /\ resp = [t \in Tasks |-> NoResponse]
  /\ cret = [t \in Tasks |-> NotCalled]
  /\ ret = [t \in Tasks |-> NotCalled]

\* ---------------------------------------------------------------- actions

\* a get_session that constructs a handle on every call
get_session_mut_always_new(s, n) == [session |-> n + 1, created |-> n + 1]

\* get_session: the session field and the handle count after the call
get_session(s, n) ==
  IF s = None THEN [session |-> n + 1, created |-> n + 1]
  ELSE [session |-> s, created |-> n]

\* The host invokes a tool; the coroutine runs to its first await.  A URL
\* of another host is refused on the spot.
Invoke(t, c) ==
  /\ running
  /\ pc[t] = "idle"
  /\ call' = [call EXCEPT ![t] = c]
  /\ IF c.op = "get_documentation_content" /\ ~ValidDocsUrl(c.url)
       THEN /\ pc' = [pc EXCEPT ![t] = "done"]
            /\ ret' = [ret EXCEPT ![t] = Return(InvalidUrlText)]
       ELSE /\ pc' = [pc EXCEPT ![t] = "acquire"]
            /\ ret' = ret
  /\ UNCHANGED << session, created, closeLog, lastGet, failed, running, sess,
                  resp, cret >>

\* session = await self.get_session(), then session.get(...) sends the GET
Acquire(t) ==
  /\ running
  /\ pc[t] = "acquire"
  /\ LET g == get_session(session, created) IN
       /\ session' = g.session
       /\ created' = g.created
       /\ sess' = [sess EXCEPT ![t] = g.session]
       /\ lastGet' = [handle |-> g.session, afterFailure |-> failed]
  /\ pc' = [pc EXCEPT ![t] = "sent"]
  /\ UNCHANGED << closeLog, failed, running, call, resp, cret, ret >>

\* aiohttp.ClientSession() raises: the fault leaves the client method
\* (get_session is awaited outside its try) and reaches the tool's except
AcquireFault(t) ==
  /\ running
  /\ pc[t] = "acquire"
  /\ session = None
  /\ cret' = [cret EXCEPT ![t] = Raise("no session")]
  /\ ret' = [ret EXCEPT ![t] = ToolReturn(call[t], Raise("no session"))]
  /\ pc' = [pc EXCEPT ![t] = "done"]
  /\ UNCHANGED << session, created, closeLog, lastGet, failed, running,
                  call, sess, resp >>

\* a response handler that drops the session when the call failed
Complete_mut_reset(t, r) ==
  /\ resp' = [resp EXCEPT ![t] = r]
  /\ cret' = [cret EXCEPT ![t] = ClientReturn(call[t], r)]
  /\ ret' = [ret EXCEPT ![t] = ToolReturn(call[t], ClientReturn(call[t], r))]
  /\ failed' = (failed \/ Failed(r))
  /\ session' = IF Failed(r) THEN None ELSE session
  /\ pc' = [pc EXCEPT ![t] = "done"]
  /\ UNCHANGED << created, closeLog, lastGet, running, call, sess >>

\* the client method ends with response r and the tool formats its result;
\* nothing here touches the session
Complete(t, r) ==
  /\ resp' = [resp EXCEPT ![t] = r]
  /\ cret' = [cret EXCEPT ![t] = ClientReturn(call[t], r)]
  /\ ret' = [ret EXCEPT ![t] = ToolReturn(call[t], ClientReturn(call[t], r))]
  /\ failed' = (failed \/ Failed(r))
  /\ pc' = [pc EXCEPT ![t] = "done"]
  /\ UNCHANGED << session, created, closeLog, lastGet, running, call, sess >>

\* The GET raises, or its status line arrives.  A closed session only raises.
Respond(t, sendFault, status, descLen) ==
  /\ running
  /\ pc[t] = "sent"
  /\ Closed(sess[t]) => sendFault
  /\ IF ~sendFault /\ status = HttpOk
       THEN /\ pc' = [pc EXCEPT ![t] = "body"]
            /\ UNCHANGED << session, created, closeLog, lastGet, failed, running,
                            call, sess, resp, cret, ret >>
       ELSE Complete(t, Response(sendFault, status, FALSE, JNull, << >>, descLen))

\* await response.json() / response.text() returns or raises
Body(t, bodyFault, data, html, descLen) ==
  /\ running
  /\ pc[t] = "body"
  /\ Complete(t, Response(FALSE, HttpOk, bodyFault, data, html, descLen))

\* the host takes the result; the slot is free for the next invocation
Finish(t) ==
  /\ running
  /\ pc[t] = "done"
  /\ pc' = [pc EXCEPT ![t] = "idle"]
  /\ call' = [call EXCEPT ![t] = NoCall]
  /\ sess' = [sess EXCEPT ![t] = None]
  /\ resp' = [resp EXCEPT ![t] = NoResponse]
  /\ cret' = [cret EXCEPT ![t] = NotCalled]
  /\ ret' = [ret EXCEPT ![t] = NotCalled]
  /\ UNCHANGED << session, created, closeLog, lastGet, failed, running >>

\* cleanup() -> docs_client.close(): if self.session: await self.session.close()
Cleanup ==
  /\ running
  /\ session # None
  /\ Len(closeLog) < MaxCleanups
  /\ closeLog' = Append(closeLog, session)
  /\ UNCHANGED << session, created, lastGet, failed, running, pc, call,
                  sess, resp, cret, ret >>

\* mcp.run() returns and the process ends; nothing calls cleanup()
Shutdown ==
  /\ running
  /\ running' = FALSE
  /\ UNCHANGED << session, created, closeLog, lastGet, failed, pc, call,
                  sess, resp, cret, ret >>

\* ----------------------------------------------------------------- inputs

R1 ==
  JObj([title |-> JStr("Azure Functions overview"),
        url |-> JStr("https://learn.microsoft.com/azure/azure-functions"),
        description |-> JStr("Quickstart and API reference"),
        lastUpdated |-> JStr("2023-05-01T00:00:00Z"),
        product |-> JStr("azure")])

R2 == JObj([title |-> JStr("Sample app")])

R3 == JObj([title |-> JNull, description |-> JStr("Tutorial")])

R4 == JObj([url |-> JStr("https://learn.microsoft.com/graph")])

\* JSON documents the search endpoint may answer with
Datas ==
  << JObj([results |-> JArr(<< R1, R2, R4 >>)]),
     JObj([results |-> JNull]),
     JObj([count |-> JNull]),
     JObj([results |-> JArr(<< >>)]),
     JObj([results |-> JArr(<< R1, JStr("x") >>)]),
     JArr(<< R1 >>),
     JObj([results |-> JArr(<< R3, R1 >>)]),
     JObj([results |-> JStr("ab")]) >>

NarrowDatas == 1..2

WideDatas == 1..Len(Datas)

\* parsed pages
Htmls ==
  << << 6000, NoMatch, 10, NoMatch >>,
     << NoMatch, NoMatch, NoMatch, NoMatch >>,
     << NoMatch, 5000, NoMatch, 3 >>,
     << NoMatch, NoMatch, 4999, NoMatch >>,
     << NoMatch, NoMatch, NoMatch, 5001 >> >>

NarrowHtmls == 1..1

WideHtmls == 1..Len(Htmls)

NarrowStatuses == {200, 500}

WideStatuses == {200, 404, 500}

\* lengths of str(e)
NarrowDescLens == {40}

WideDescLens == {0, 40, 4976, 4977, 6000}

NarrowCalls ==
  { SearchCall("Azure Functions", "", 2),
    ContentCall("https://learn.microsoft.com/azure"),
    ContentCall("https://example.com/page") }

WideCalls ==
  { SearchCall(q, p, m) : q \in {"Azure Functions", "c#"}, p \in {"", "azure"},
                          m \in {-1, 0, 2, 3, 5, 1000} }
  \cup { ContentCall(u) : u \in {"https://example.com/page",
                                 "https://learn.microsoft.com/azure",
                                 "https://docs.microsoft.com",
                                 "http://learn.microsoft.com/azure",
                                 "https://learn.microsoft.co",
                                 ""} }
  \cup { CodeCall(x, l, sc) : x \in {"React", "Azure Functions", ""},
                              l \in {"", "python"},
                              sc \in {"", "authentication"} }
  \cup { ApiCall(a, v) : a \in {"Microsoft Graph", "Teams"}, v \in {"latest", "v1.0"} }

IsContent(t) == call[t].op = "get_documentation_content"

\* one step of invocation slot t with inputs drawn from the given sets
Step(t, Cs, Sts, Ds, Hs, Ls) ==
  \/ \E c \in Cs : Invoke(t, c)
  \/ Acquire(t)
  \/ AcquireFault(t)
  \/ /\ ~IsContent(t)
     /\ Respond(t, TRUE, 0, 0)
  \/ \E n \in Ls : IsContent(t) /\ Respond(t, TRUE, 0, n)
  \/ \E st \in Sts : Respond(t, FALSE, st, 0)
  \/ /\ ~IsContent(t)
     /\ Body(t, TRUE, JNull, << >>, 0)
  \/ \E d \in Ds : ~IsContent(t) /\ Body(t, FALSE, Datas[d], << >>, 0)
  \/ \E n \in Ls : IsContent(t) /\ Body(t, TRUE, JNull, << >>, n)
  \/ \E h \in Hs : IsContent(t) /\ Body(t, FALSE, JNull, Htmls[h], 0)
  \/ Finish(t)

\* overlapping invocations, teardown and process exit
Next ==
  \/ \E t \in Tasks :
       Step(t, NarrowCalls, NarrowStatuses, NarrowDatas, NarrowHtmls, NarrowDescLens)
  \/ Cleanup
  \/ Shutdown

Spec == Init /\ [][Next]_vars

\* one invocation at a time, every input
NextSeq ==
  Step(1, WideCalls, WideStatuses, WideDatas, WideHtmls, WideDescLens)

SpecSeq == Init /\ [][NextSeq]_vars

\* ----------------------------------------------------------------- claims

Done(t) == pc[t] = "done"

\* the call of slot t sent its GET and ended in a non-200 status or a fault
FellBack(t) == Done(t) /\ sess[t] # None /\ Failed(resp[t])

UsesSearch(t) ==
  call[t].op \in {"search_microsoft_docs", "find_code_examples", "get_api_reference"}

\* C1: get_session constructs a handle at most once, whatever the
\* interleaving of the overlapping calls: every call that has acquired the
\* session holds the one handle the client field names, and no second handle
\* is ever constructed, also after close().
C1_SessionCreatedOnce ==
  /\ created <= 1
  /\ session \in {None, 1}
  /\ \A t \in Tasks : pc[t] \in {"sent", "body"} => sess[t] # None
  /\ \A t \in Tasks : sess[t] # None => sess[t] = session

C1_Witness ==
  \E t1, t2 \in Tasks :
    /\ t1 # t2
    /\ pc[t1] = "sent" /\ pc[t2] = "sent"
    /\ sess[t1] = 1 /\ sess[t2] = 1
    /\ created = 1

\* C2 (as claimed): on HTTP 200 with a JSON document whose results are a
\* sequence (or missing), search_docs returns that sequence capped at
\* max_results.
C2_Claim_ResultsCapped ==
  \A t \in Tasks :
    ( /\ Done(t) /\ UsesSearch(t) /\ sess[t] # None /\ ~Failed(resp[t])
      /\ resp[t].data.t = "obj"
      /\ Get(resp[t].data.v, "results", JArr(<< >>)).t = "arr"
      /\ ClientMax(call[t]) >= 0 )
    => LET results == Get(resp[t].data.v, "results", JArr(<< >>)).v IN
       cret[t] = Return(JArr(SubSeq(results, 1, Min2(ClientMax(call[t]), Len(results)))))

\* C3: for every non-200 status and every fault raised while sending the
\* request or decoding the body, search_docs returns (never raises) the
\* fallback sequence synthesized from query and product.
C3_SearchNeverRaises ==
  \A t \in Tasks :
    (FellBack(t) /\ UsesSearch(t))
    => /\ cret[t].kind = "return"
       /\ cret[t].val =
            JArr(fallback_search(ClientQuery(call[t]), ClientProduct(call[t]),
                                 ClientMax(call[t])))

C3_Witness ==
  \E t \in Tasks :
    /\ FellBack(t) /\ resp[t].bodyFault
    /\ call[t].op = "search_microsoft_docs" /\ call[t].query = "Azure Functions"
    /\ call[t].max_results = 5
    /\ cret[t].kind = "return" /\ Len(cret[t].val.v) = 3
    /\ cret[t].val.v[1].v.url = JStr("https://learn.microsoft.com/en-us/docs/azure-functions")

\* C4 (as claimed): for every integer max_results the fallback returns no
\* more than max_results records.
C4_Claim_FallbackWithinMax ==
  \A t \in Tasks :
    (FellBack(t) /\ call[t].op = "search_microsoft_docs")
    => /\ cret[t].kind = "return"
       /\ Len(cret[t].val.v) <= call[t].max_results

\* C5 (as claimed): every string get_page_content returns has at most 5000
\* characters, the error strings that embed a fault description included.
C5_Claim_ContentBounded ==
  \A t \in Tasks :
    (Done(t) /\ IsContent(t) /\ cret[t].kind = "return") => cret[t].val.len <= 5000

\* C6: a url that starts with neither documentation host is refused with an
\* error string before any network call: get_page_content is not invoked, no
\* GET is sent, and the session is left as it was (not created if absent).
BadPrefix(url) ==
  /\ ~StartsWith(url, "https://docs.microsoft.com")
  /\ ~StartsWith(url, "https://learn.microsoft.com")

Refused(t) == call[t].op = "get_documentation_content" /\ BadPrefix(call[t].url)

C6_InvalidUrlNoNetwork ==
  /\ [](\A t \in Tasks :
          Refused(t) => /\ Done(t)
                        /\ ret[t].kind = "return" /\ ret[t].val.err
                        /\ cret[t] = NotCalled
                        /\ sess[t] = None)
  /\ [][\A t \in Tasks :
          (pc[t] = "idle" /\ Refused(t)')
          => (session' = session /\ created' = created /\ lastGet' = lastGet)]_vars

C6_Witness ==
  \E t \in Tasks :
    /\ Refused(t) /\ Done(t)
    /\ call[t].url = "https://example.com/page"
    /\ ret[t].val.err
    /\ session = None /\ created = 0 /\ lastGet.handle = None

\* C7: no tool lets a fault cross to the host.  Whatever the client returns
\* or raises (a results value that is null or holds elements that are no
\* mappings, a fault while acquiring the session), the tool returns a value,
\* and that value is error-shaped: an error key, or an error string.
Malformed(cr) ==
  \/ cr.kind = "raise"
  \/ cr.kind = "return" /\ cr.val.t = "null"
  \/ cr.kind = "return" /\ cr.val.t = "arr"
       /\ \E i \in 1..Len(cr.val.v) : cr.val.v[i].t # "obj"

ErrorShaped(c, r) ==
  CASE c.op = "get_documentation_content" -> r.val.err
    [] c.op = "get_api_reference" -> "error" \in DOMAIN r.val
    [] OTHER -> Len(r.val) = 1 /\ "error" \in DOMAIN r.val[1]

C7_NoFaultCrossesFacade ==
  \A t \in Tasks :
    Done(t) => /\ ret[t].kind = "return"
               /\ (~IsContent(t) /\ Malformed(cret[t])) => ErrorShaped(call[t], ret[t])
               /\ (IsContent(t) /\ cret[t].kind = "raise") => ErrorShaped(call[t], ret[t])

C7_Witness ==
  \E t \in Tasks :
    /\ Done(t) /\ call[t].op = "search_microsoft_docs"
    /\ cret[t].kind = "return" /\ cret[t].val.t = "null"
    /\ ret[t].kind = "return"
    /\ ret[t].val = << [error |-> "Search failed: object is not iterable"] >>

\* C8: a failed call never releases or replaces the shared session.  Only
\* close() adds to the closed handles, no step replaces a handle the client
\* holds, and every GET goes out on the handle the client holds.
C8_FailureKeepsSession ==
  /\ [](lastGet.handle \in {None, session})
  /\ [][ /\ session # None => session' = session
         /\ closeLog' # closeLog => Cleanup ]_vars

C8_Witness ==
  \E t \in Tasks :
    /\ failed
    /\ pc[t] = "sent" /\ sess[t] = session /\ session # None
    /\ lastGet = [handle |-> session, afterFailure |-> TRUE]
    /\ ~Closed(session)

\* C9 (as claimed): the handle's close is performed at most once, and once
\* the process has shut down every handle created has been closed exactly
\* once.
CloseCount(h) == Cardinality({i \in 1..Len(closeLog) : closeLog[i] = h})

C9_Claim_ClosedExactlyOnce ==
  /\ \A h \in 1..created : CloseCount(h) <= 1
  /\ ~running => \A h \in 1..created : CloseCount(h) = 1

\* C10: when the search falls back, find_code_examples keeps all three
\* synthesized records: it returns exactly three records, one per
\* synthesized record and in order, each of type code_example.
C10_FallbackKeepsAllThree ==
  \A t \in Tasks :
    (FellBack(t) /\ call[t].op = "find_code_examples")
    => /\ ret[t].kind = "return"
       /\ Len(ret[t].val) = 3
       /\ \A i \in 1..3 :
            /\ ret[t].val[i].type = "code_example"
            /\ ret[t].val[i].title = cret[t].val.v[i].v.title
            /\ ret[t].val[i].url = cret[t].val.v[i].v.url
       /\ Contains(" - Getting Started Guide", ret[t].val[2].title.v)
       /\ Contains(" - Code Examples", ret[t].val[3].title.v)

C10_Witness ==
  \E t \in Tasks :
    /\ FellBack(t) /\ call[t].op = "find_code_examples"
    /\ call[t].technology = "" /\ call[t].scenario = "authentication"
    /\ Len(ret[t].val) = 3
    /\ ret[t].val[1].title = JStr("Microsoft Documentation:  authentication code example tutorial sample")

====
